---- MODULE Spec2Model ----
(***************************************************************************)
(* Model of the useQueryParam React hook (src/hooks/useQueryParam.js, as   *)
(* listed in the post under src/content/posts): handleParam, the hook, the *)
(* browser's location and session history it reads and writes.             *)
(***************************************************************************)
EXTENDS Naturals, Sequences, FiniteSets, TLC

\* ------------------------------------------------------------------ bounds
\* Longest query string (in key=value pairs) of the URL the page is opened on.
MaxPairs == 2
\* Largest number of entries of the session history.
MaxHist == 3
\* Largest number of trailing slashes of the path the page is opened on.
MaxTrail == 2

\* ------------------------------------------------------------- JS values
\* The JavaScript values undefined and null, kept apart from every string
\* (in particular from the string "null").
Undefined == "<undefined>"
Null == "<null>"
\* The strings a consumer passes as a value; "a b" needs encoding in a URL.
Strs == {"x", "a b"}
\* What a consumer may pass as value / newValue.
Values == Strs \cup {Null, Undefined}
\* The query keys.
Keys == {"k", "o"}
\* The hook instances (two consumers on the same page).
Bindings == {"A", "B"}

\* An option that the object does not carry.
Unset == "unset"
\* The options objects: each field is absent or has one of its values.
Options ==
    [historyState : {Unset, "replace", "push"}, nullDeletes : {Unset, "true", "false"}]
\* The empty options object {}.
NoOptions == [historyState |-> Unset, nullDeletes |-> Unset]

\* ------------------------------------------------------------- sequences
Last(s) == s[Len(s)]
Front(s) == SubSeq(s, 1, Len(s) - 1)

\* The index of the first entry of params with name key (0 if there is none).
FirstIndex(params, key) ==
    IF \E i \in 1..Len(params) : params[i].k = key
    THEN CHOOSE i \in 1..Len(params) :
            /\ params[i].k = key
            /\ \A j \in 1..(i - 1) : params[j].k # key
    ELSE 0

\* ------------------------------------------------- URLSearchParams (browser)
\* Decoding that leaves "+" alone, as decodeURIComponent does.
DecodeNoPlus(raw) ==
    CASE raw = "a%20b" -> "a b"
      [] OTHER -> raw

\* application/x-www-form-urlencoded decoding of a raw name or value.
Decode(raw) ==
    CASE raw = "a%20b" -> "a b"
      [] raw = "a+b" -> "a b"
      [] OTHER -> raw

\* application/x-www-form-urlencoded serialisation of a name or value.
Encode(str) ==
    CASE str = "a b" -> "a+b"
      [] OTHER -> str

\* String(value), the conversion params.set applies to its value argument.
ToStr(value) ==
    CASE value = Null -> "null"
      [] value = Undefined -> "undefined"
      [] OTHER -> value

\* new URLSearchParams(location.search): the decoded list of pairs.
ParseSearch(search) ==
    [i \in 1..Len(search) |-> [k |-> Decode(search[i].k), v |-> Decode(search[i].v)]]

\* A get that returns the value of the last pair named key.
ParamsGetLast(params, key) ==
    LET named == SelectSeq(params, LAMBDA p : p.k = key) IN
    IF named = << >> THEN Null ELSE named[Len(named)].v

\* params.get(key): the value of the first pair named key, or null.
ParamsGet(params, key) ==
    IF FirstIndex(params, key) = 0 THEN Null ELSE params[FirstIndex(params, key)].v

\* params.delete(key): removes every pair named key.
ParamsDelete(params, key) ==
    SelectSeq(params, LAMBDA p : p.k # key)

\* A set on a query string built anew, which forgets the pairs of the URL.
ParamsSetAlone(params, key, value) ==
    <<[k |-> key, v |-> ToStr(value)]>>

\* params.set(key, value): the first pair named key takes the value and the
\* other pairs named key are removed; a new pair is appended if there is none.
ParamsSet(params, key, value) ==
    LET i == FirstIndex(params, key) IN
    IF i = 0
    THEN Append(params, [k |-> key, v |-> ToStr(value)])
    ELSE SubSeq(params, 1, i - 1)
            \o <<[k |-> key, v |-> ToStr(value)]>>
            \o ParamsDelete(SubSeq(params, i + 1, Len(params)), key)

\* params.toString(): the serialised pairs (<< >> is the empty string).
ParamsToString(params) ==
    [i \in 1..Len(params) |-> [k |-> Encode(params[i].k), v |-> Encode(params[i].v)]]

\* pathname.replace(/\/$/, ``): one trailing slash is removed.
StripSlash(pathname) ==
    IF Len(pathname) > 0 /\ Last(pathname) = "/" THEN Front(pathname) ELSE pathname

\* ------------------------------------------------------------ handleParam
\* const { historyState = `replace`, nullDeletes = true } = options
HistoryStateOf(options) ==
    IF options.historyState = Unset THEN "replace" ELSE options.historyState

NullDeletesOf(options) ==
    IF options.nullDeletes = Unset THEN TRUE ELSE options.nullDeletes = "true"

\* The spread in the other order, { ...override, ...options }: the hook wins.
MergeOptionsHookWins(options, override) ==
    [f \in DOMAIN options |-> IF options[f] # Unset THEN options[f] ELSE override[f]]

\* { ...options, ...override }: a field the override carries wins.
MergeOptions(options, override) ==
    [f \in DOMAIN options |-> IF override[f] # Unset THEN override[f] ELSE options[f]]

\* handleParam without the read of the URL for an undefined value.
HandleParamNoRead(loc, key, value, options) ==
    LET params == ParseSearch(loc.search)
        updated == IF value = Null /\ NullDeletesOf(options)
                   THEN ParamsDelete(params, key)
                   ELSE ParamsSet(params, key, value)
    IN [target |-> [pathname |-> StripSlash(loc.pathname),
                    search |-> ParamsToString(updated)],
        historyState |-> HistoryStateOf(options),
        value |-> value]

\* handleParam(key, value, options) on the page whose URL is loc: the URL
\* string it builds (target: path and serialised query, << >> for an empty
\* part), the history method it calls, and the value it returns.
HandleParam(loc, key, value, options) ==
    LET params == ParseSearch(loc.search)
        val == IF value = Undefined THEN ParamsGet(params, key) ELSE value
        updated == IF val = Null /\ NullDeletesOf(options)
                   THEN ParamsDelete(params, key)
                   ELSE ParamsSet(params, key, val)
    IN [target |-> [pathname |-> StripSlash(loc.pathname),
                    search |-> ParamsToString(updated)],
        historyState |-> HistoryStateOf(options),
        value |-> val]

\* ------------------------------------------------ session history (browser)
\* The URL an entry gets from history.pushState/replaceState(state, ``, target):
\* the empty string keeps the document's URL, a string that is a query only
\* ("?k=v") keeps its path, any other string here is an absolute path.
ResolveUrl(loc, target) ==
    IF target.pathname = << >> /\ target.search = << >> THEN loc
    ELSE IF target.pathname = << >>
         THEN [pathname |-> loc.pathname, search |-> target.search]
         ELSE target

\* history[historyState + `State`]({ path: value }, ``, target) on the
\* session history h, whose last entry is the current one.
HistoryCommit(h, historyState, target) ==
    IF historyState = "push"
    THEN Append(h, ResolveUrl(Last(h), target))
    ELSE [h EXCEPT ![Len(h)] = ResolveUrl(Last(h), target)]

\* ------------------------------------------------------------------ state
VARIABLES
    history,   \* the session history: the URLs of its entries, current one last
    hooks,     \* per hook instance: its arguments and its React state
    last       \* the latest handleParam call: who made it and with what

vars == <<history, hooks, last>>

\* window.location.
location == Last(history)

\* The paths a page is opened on: "/", "/a", "/a/", ...
Slashes(n) == [i \in 1..n |-> "/"]
Paths == {<<"/">>} \cup {<<"/", "a">> \o Slashes(n) : n \in 0..MaxTrail}

\* The raw names and values of the query string a page is opened on.
RawStrs == {"x", "a%20b"}
RawPairs == [k : Keys, v : RawStrs]
Searches(n) == UNION {[1..m -> RawPairs] : m \in 0..n}

\* A hook instance that is not mounted.
Unmounted ==
    [mounted |-> FALSE, key |-> "k", value |-> Undefined, options |-> NoOptions,
     param |-> Undefined, pending |-> FALSE]

\* The record of a handleParam call: the operation that made it, the hook, the
\* value it was given, and its options after defaulting.
Call(op, b, value, options) ==
    [op |-> op, hook |-> b, value |-> value,
     historyState |-> HistoryStateOf(options), nullDeletes |-> NullDeletesOf(options)]

NoCall ==
    [op |-> "none", hook |-> "A", value |-> Undefined,
     historyState |-> "replace", nullDeletes |-> TRUE]

\* The page is opened on one of the URLs of urls; nothing is mounted yet.
Opened(urls) ==
    /\ \E u \in urls : history = <<u>>
    /\ hooks = [b \in Bindings |-> Unmounted]
    /\ last = NoCall

\* The paths a page is opened on when the consumer's later calls and renders
\* are followed: the root and a path with a trailing slash (which the first
\* render strips).
OpenPaths == {<<"/">>, <<"/", "a", "/">>}

\* The query strings it is then opened on: none, the key alone, another key
\* alone, both, and the key twice.
OpenSearches ==
    {<< >>,
     <<[k |-> "k", v |-> "x"]>>,
     <<[k |-> "o", v |-> "a%20b"]>>,
     <<[k |-> "o", v |-> "x"], [k |-> "k", v |-> "a%20b"]>>,
     <<[k |-> "k", v |-> "x"], [k |-> "k", v |-> "a%20b"]>>}

Init == Opened([pathname : OpenPaths, search : OpenSearches])

\* A handleParam call may run when its history method has room for an entry.
HasRoom(options) ==
    HistoryStateOf(options) = "push" => Len(history) < MaxHist

\* First render of a consumer: useState(handleParam(key, value, options))
\* calls handleParam and keeps its result as the state.
Mount(b, key, value, options) ==
    LET r == HandleParam(location, key, value, options) IN
    /\ ~hooks[b].mounted
    /\ HasRoom(options)
    /\ history' = HistoryCommit(history, r.historyState, r.target)
    /\ hooks' = [hooks EXCEPT ![b] =
            [mounted |-> TRUE, key |-> key, value |-> value, options |-> options,
             param |-> r.value, pending |-> FALSE]]
    /\ last' = Call("mount", b, value, options)

\* The setter: setParam(handleParam(key, newValue, { ...options, ...override })).
\* The setter returns after setParam; React renders the consumer again
\* afterwards, as a step of its own (Rerender with cause "state"), when the
\* new state differs from the current one, and `pending` records that this
\* render is due.
SetValue(b, newValue, override) ==
    LET merged == MergeOptions(hooks[b].options, override)
        r == HandleParam(location, hooks[b].key, newValue, merged) IN
    /\ hooks[b].mounted
    /\ HasRoom(merged)
    /\ history' = HistoryCommit(history, r.historyState, r.target)
    /\ hooks' = [hooks EXCEPT ![b].param = r.value,
                              ![b].pending = hooks[b].pending \/ r.value # hooks[b].param]
    /\ last' = Call("setValue", b, newValue, merged)

\* A later render of the consumer, because its state changed (cause "state")
\* or because its parent rendered (cause "parent"): the argument of useState
\* is evaluated again, so handleParam runs with the hook's own arguments;
\* useState ignores the result and returns the state.
Rerender(b, cause) ==
    LET r == HandleParam(location, hooks[b].key, hooks[b].value, hooks[b].options) IN
    /\ hooks[b].mounted
    /\ cause = "state" => hooks[b].pending
    /\ HasRoom(hooks[b].options)
    /\ history' = HistoryCommit(history, r.historyState, r.target)
    /\ hooks' = [hooks EXCEPT ![b].pending = FALSE]
    /\ last' = Call("render", b, hooks[b].value, hooks[b].options)

\* The options a consumer gives its hook: a field is absent or differs from
\* its default (an absent field and one set to its default read alike).
HookOptions == [historyState : {Unset, "push"}, nullDeletes : {Unset, "false"}]

\* The overrides a consumer gives a call: none, or one field.
Overrides == {o \in Options : o.historyState = Unset \/ o.nullDeletes = Unset}

\* One consumer of the key "k", with any value and options.
Next ==
    \/ \E value \in Values, options \in HookOptions : Mount("A", "k", value, options)
    \/ \E newValue \in Values, override \in Overrides : SetValue("A", newValue, override)
    \/ \E cause \in {"state", "parent"} : Rerender("A", cause)

Spec == Init /\ [][Next]_vars

\* handleParam alone, on the query strings of up to MaxPairs pairs: the
\* first render of one consumer, with any arguments.
InitCodec == Opened([pathname : Paths, search : Searches(MaxPairs)])

NextCodec ==
    \E key \in Keys, value \in Values, options \in Options :
        Mount("A", key, value, options)

SpecCodec == InitCodec /\ [][NextCodec]_vars

\* Two consumers with default options and no initial value, the first on the
\* key "k", the second on the same key or on another.
NextTwo ==
    \/ Mount("A", "k", Undefined, NoOptions)
    \/ \E key \in Keys : Mount("B", key, Undefined, NoOptions)
    \/ \E b \in Bindings, newValue \in Values : SetValue(b, newValue, NoOptions)
    \/ \E b \in Bindings, cause \in {"state", "parent"} : Rerender(b, cause)

SpecTwo == Init /\ [][NextTwo]_vars

\* ----------------------------------------------------------------- claims
\* The value the URL url holds for key: that of its first pair named key,
\* decoded, or null when it has none.
UrlValue(url, key) ==
    LET named == SelectSeq(url.search, LAMBDA p : Decode(p.k) = key) IN
    IF named = << >> THEN Null ELSE Decode(named[1].v)

\* The hook's state and the URL agree on the hook's key.
Agree(b) == UrlValue(location, hooks[b].key) = hooks[b].param

\* The options of the latest call, as an options object.
LastOptions ==
    [historyState |-> last.historyState,
     nullDeletes |-> IF last.nullDeletes THEN "true" ELSE "false"]

\* C1: after every setValue call the URL's value for the hook's key and the
\* hook's state are the same (the string v, or null and no entry), and a
\* re-render of the consumer keeps them the same.
C1UrlMirrorsState ==
    [][\A b \in Bindings :
          /\ last'.op = "setValue" /\ last'.hook = b => Agree(b)'
          /\ last'.op = "render" /\ last'.hook = b /\ Agree(b) => Agree(b)']_vars

\* C2: the first render of a consumer (the construction of the binding)
\* leaves the session history as it was: its length and every entry's URL.
C2MountCommitsNothing ==
    [][last'.op = "mount" /\ ~hooks[last'.hook].mounted => history' = history]_vars

\* C3: a re-render of the consumer runs nothing against the URL: the session
\* history, the URL and the hook's state stay as they were.
C3RerenderChangesNothing ==
    [][\A b \in Bindings : last'.op = "render" /\ last'.hook = b =>
          history' = history /\ hooks'[b].param = hooks[b].param]_vars

\* C4: a setValue call with historyState push adds exactly one history entry,
\* one with replace adds none, and the re-render a call triggers adds none.
C4OneEntryPerPush ==
    [][/\ last'.op = "setValue" /\ last'.historyState = "push"
            => Len(history') = Len(history) + 1
       /\ last'.op = "setValue" /\ last'.historyState = "replace"
            => Len(history') = Len(history)
       /\ last'.op = "render" /\ hooks[last'.hook].pending
            => Len(history') = Len(history)]_vars

\* The session history once the re-render a state change triggers has run:
\* a setValue call that changed hook b's state makes b render again, and
\* that render runs handleParam with the hook's own arguments and commits.
AfterTriggeredRender(b) ==
    IF hooks'[b].param # hooks[b].param
    THEN LET r == HandleParam(location', hooks[b].key, hooks[b].value, hooks[b].options)
         IN HistoryCommit(history', r.historyState, r.target)
    ELSE history'

\* C5: after a setValue call with push, and the re-render it triggers, the
\* entry directly below the current one holds the URL that was current
\* before the call (back reverts to it); after one with replace, the current
\* entry holds the new URL and the entries below it are unchanged.
C5BackTarget ==
    [][\A b \in Bindings : last'.op = "setValue" /\ last'.hook = b =>
          LET after == AfterTriggeredRender(b) IN
          IF last'.historyState = "push"
          THEN /\ history'[Len(history') - 1] = location
               /\ after[Len(after) - 1] = location
          ELSE /\ Front(history') = Front(history)
               /\ Last(after) = location'
               /\ Front(after) = Front(history)]_vars

\* C6: on a hook with default options and a URL without the key,
\* setValue(v) with a string v gives path?...&k=v and the state v, and a
\* following setValue(null) gives the starting URL again and the state null.
C6SetThenDelete ==
    \A b \in Bindings, v \in Strs :
        (/\ hooks[b].mounted /\ hooks[b].options = NoOptions
         /\ UrlValue(location, hooks[b].key) = Null) =>
            LET key == hooks[b].key
                r1 == HandleParam(location, key, v, NoOptions)
                h1 == HistoryCommit(history, r1.historyState, r1.target)
                r2 == HandleParam(Last(h1), key, Null, NoOptions)
                h2 == HistoryCommit(h1, r2.historyState, r2.target)
            IN /\ Last(h1) = [pathname |-> location.pathname,
                              search |-> Append(location.search,
                                                [k |-> Encode(key), v |-> Encode(v)])]
               /\ r1.value = v
               /\ Last(h2) = location
               /\ r2.value = Null

\* C7: the state a hook starts with is the URL's value for the key (null
\* when the key is absent) when the initial value is undefined, and the
\* initial value when that is a string.
C7StartingValue ==
    [][\A b \in Bindings : last'.op = "mount" /\ last'.hook = b /\ ~hooks[b].mounted =>
          /\ last'.value = Undefined
                => hooks'[b].param = UrlValue(location, hooks'[b].key)
          /\ last'.value \in Strs => hooks'[b].param = last'.value]_vars

\* A hook mounted without an initial value has read "a b" from a URL that
\* also has another key.
C7Witness ==
    /\ last.op = "mount" /\ last.value = Undefined
    /\ hooks["A"].param = "a b"
    /\ UrlValue(location, "o") # Null

\* The pairs of a query string that are not named key, decoded, in order.
OtherPairs(search, key) ==
    SelectSeq([i \in 1..Len(search) |-> <<Decode(search[i].k), Decode(search[i].v)>>],
              LAMBDA p : p[1] # key)

\* The path without one trailing slash.
WithoutTrailingSlash(pathname) ==
    IF pathname # << >> /\ pathname[Len(pathname)] = "/"
    THEN SubSeq(pathname, 1, Len(pathname) - 1)
    ELSE pathname

\* C8 (as claimed): the URL handleParam builds has the path of the input URL
\* and every pair of it that is not named key, value and order unchanged.
C8SamePath ==
    \A key \in Keys, value \in Values, options \in Options :
        LET r == HandleParam(location, key, value, options) IN
        /\ r.target.pathname = location.pathname
        /\ OtherPairs(r.target.search, key) = OtherPairs(location.search, key)

\* C8 (amended): the URL handleParam builds has the path of the input URL
\* less one trailing slash, and every pair of it that is not named key,
\* with its decoded value and in unchanged order.
C8OthersKept ==
    \A key \in Keys, value \in Values, options \in Options :
        LET r == HandleParam(location, key, value, options) IN
        /\ r.target.pathname = WithoutTrailingSlash(location.pathname)
        /\ OtherPairs(r.target.search, key) = OtherPairs(location.search, key)

\* A first render has set the key "k" on a URL that holds another key
\* before it, and the other key's value needs encoding.
C8Witness ==
    /\ last.op = "mount" /\ last.value = "x"
    /\ Len(location.search) = 2
    /\ location.search[1] = [k |-> "o", v |-> "a+b"]
    /\ location.search[2] = [k |-> "k", v |-> "x"]
    /\ Len(location.pathname) = 2

\* C9: writing a string v for a key with default options and then reading
\* the key from the resulting URL yields v.
C9RoundTrip ==
    \A key \in Keys, v \in Strs :
        LET r1 == HandleParam(location, key, v, NoOptions)
            h1 == HistoryCommit(history, r1.historyState, r1.target)
        IN HandleParam(Last(h1), key, Undefined, NoOptions).value = v

\* A first render with default options has written "a b" over another
\* value, and a read of the key yields it.
C9Witness ==
    /\ last.op = "mount" /\ last.value = "a b"
    /\ hooks["A"].mounted /\ hooks["A"].options = NoOptions
    /\ location.search = <<[k |-> hooks["A"].key, v |-> "a+b"]>>
    /\ HandleParam(location, hooks["A"].key, Undefined, NoOptions).value = "a b"

\* The options { nullDeletes: true }.
Deleting == [historyState |-> Unset, nullDeletes |-> "true"]

\* C10: deleting a key from the URL that results from deleting it builds
\* the same URL as the first deletion.
C10DeleteTwice ==
    \A key \in Keys :
        LET r1 == HandleParam(location, key, Null, Deleting)
            h1 == HistoryCommit(history, r1.historyState, r1.target)
        IN HandleParam(Last(h1), key, Null, Deleting).target = r1.target

\* The value an option has for a call: the override's if the override gives
\* the field, else the hook's if the hook has it, else the default.
Effective(stored, override, default) ==
    IF override # Unset THEN override ELSE IF stored # Unset THEN stored ELSE default

\* C13: every setValue call runs with the hook's options, each field
\* replaced by the override's where the override gives it and defaulted
\* ('replace', true) where neither gives it; the hook's own options stay as
\* they were, so an override does not reach later calls.
C13OverridePerCall ==
    [][\A b \in Bindings, v \in Values, ov \in Overrides :
          (last'.op = "setValue" /\ last'.hook = b /\ last'.value = v
              /\ SetValue(b, v, ov)) =>
            /\ last'.historyState
                 = Effective(hooks[b].options.historyState, ov.historyState, "replace")
            /\ last'.nullDeletes
                 = (Effective(hooks[b].options.nullDeletes, ov.nullDeletes, "true") = "true")
            /\ Len(history') = Len(history)
                 + (IF Effective(hooks[b].options.historyState, ov.historyState, "replace")
                        = "push" THEN 1 ELSE 0)
            /\ hooks'[b].options = hooks[b].options]_vars

\* A call has pushed an entry on a hook without historyState (the override
\* gave it), and the call after it, on the hook's own nullDeletes false, has
\* written null as a string without adding an entry.
C13Witness ==
    /\ last.op = "setValue" /\ last.value = Null
    /\ last.historyState = "replace" /\ ~last.nullDeletes
    /\ hooks["A"].options = [historyState |-> Unset, nullDeletes |-> "false"]
    /\ Len(history) = 2
    /\ UrlValue(location, "k") = "null"

\* The options objects that say nullDeletes one way or the other, or not.
AnyNullDeletes == [historyState : {Unset}, nullDeletes : {Unset, "true", "false"}]

\* C11: on a URL without the key, a read (value undefined) returns null and
\* leaves the URL as it is, whatever nullDeletes is.
C11AbsentRead ==
    \A key \in Keys, options \in AnyNullDeletes :
        UrlValue(location, key) = Null =>
            LET r == HandleParam(location, key, Undefined, options) IN
            /\ r.value = Null
            /\ ResolveUrl(location, r.target) = location

\* The options { nullDeletes: false }.
Keeping == [historyState |-> Unset, nullDeletes |-> "false"]

\* C12: with nullDeletes false, a null value leaves the query string as it
\* is: the key's pair is neither removed nor set, and "null" is not written.
C12NullIsNoOp ==
    \A key \in Keys :
        LET r == HandleParam(location, key, Null, Keeping) IN
        /\ ParseSearch(r.target.search) = ParseSearch(location.search)
        /\ (UrlValue(location, key) # "null" => UrlValue(r.target, key) # "null")

\* The value of the last pair of url named key, decoded, or null.
LastUrlValue(url, key) ==
    LET named == SelectSeq(url.search, LAMBDA p : Decode(p.k) = key) IN
    IF named = << >> THEN Null ELSE Decode(named[Len(named)].v)

\* C14 (as claimed): a read of a key that the URL holds more than once
\* returns the value of its last pair.
C14LastWins ==
    \A key \in Keys :
        HandleParam(location, key, Undefined, NoOptions).value = LastUrlValue(location, key)

\* C14 (amended): a read of a key that the URL holds more than once returns
\* the value of its first pair.
C14FirstWins ==
    \A key \in Keys :
        HandleParam(location, key, Undefined, NoOptions).value = UrlValue(location, key)

\* After a first render on the key "k", the URL holds the key "o" twice
\* with different values, and a read of "o" returns the first.
C14Witness ==
    /\ last.op = "mount" /\ hooks["A"].key = "k"
    /\ Len(location.search) = 2
    /\ location.search[1] = [k |-> "o", v |-> "x"]
    /\ location.search[2] = [k |-> "o", v |-> "a+b"]
    /\ HandleParam(location, "o", Undefined, NoOptions).value = "x"

\* C17: a read (value undefined) builds a query string with the pairs of
\* the input's, in the same order, also where the key occurs more than once.
C17ReadKeepsPairs ==
    \A key \in Keys :
        ParseSearch(HandleParam(location, key, Undefined, NoOptions).target.search)
            = ParseSearch(location.search)

\* C18: the path of the URL handleParam builds is the input path without
\* its trailing slashes: it does not end in a slash, and it is a prefix of
\* the input path that lacks only slashes.
C18NoTrailingSlash ==
    \A key \in Keys, value \in Values, options \in Options :
        LET path == HandleParam(location, key, value, options).target.pathname
            n == Len(path)
        IN /\ n > 0 => path[n] # "/"
           /\ n <= Len(location.pathname)
           /\ path = SubSeq(location.pathname, 1, n)
           /\ \A i \in (n + 1)..Len(location.pathname) : location.pathname[i] = "/"

\* C15: after a setValue call, a new hook on the same key, mounted without
\* an initial value on the URL as it then is, starts with the state the
\* old hook holds.
C15Reload ==
    \A b \in Bindings :
        (last.op = "setValue" /\ last.hook = b) =>
            HandleParam(location, hooks[b].key, Undefined, NoOptions).value = hooks[b].param

\* The values a consumer writes: a string, or null to delete.
Written == Strs \cup {Null}

\* C16: with two hooks on the same key, after a.setValue(x) and then
\* b.setValue(y), x and y different, the URL's value for the key is y and
\* b's state is y, while a's state is still x.
C16LastWriteWins ==
    [][\A a \in Bindings : \A b \in Bindings \ {a} :
          (/\ hooks[a].mounted /\ hooks[b].mounted /\ hooks[a].key = hooks[b].key
           /\ last.op = "setValue" /\ last.hook = a /\ last.value \in Written
           /\ last'.op = "setValue" /\ last'.hook = b /\ last'.value \in Written
           /\ last'.value # last.value) =>
            /\ UrlValue(location', hooks[b].key) = last'.value
            /\ hooks'[b].param = last'.value
            /\ hooks'[a].param = last.value]_vars

\* C19: with two hooks on different keys, after every setValue call and
\* every re-render the URL's value for each hook's key is that hook's
\* state, and a setValue call of one hook leaves the other key's entry as
\* it was.
C19DistinctKeys ==
    [][\A a \in Bindings : \A b \in Bindings \ {a} :
          (/\ hooks[a].mounted /\ hooks[b].mounted /\ hooks[a].key # hooks[b].key
           /\ last'.op \in {"setValue", "render"} /\ last'.hook = a) =>
            /\ Agree(a)' /\ Agree(b)'
            /\ UrlValue(location', hooks[b].key) = UrlValue(location, hooks[b].key)]_vars

====
